---- MODULE Spec2Model ----
(***************************************************************************)
(* Model of the analysis pipeline of src/streamlit_app.py (StockUP):       *)
(* fetch_intraday_data -> calculate_moving_averages -> analyze_trends ->   *)
(* calculate_factor_metrics -> the "Key Insights" block of main.           *)
(*                                                                         *)
(* Numbers.  Prices, volumes, timestamps and factors are integers.  Every  *)
(* value the code obtains by a float64 division is a record                *)
(* [num |-> n, den |-> d] in lowest terms with d >= 0: d > 0 is the        *)
(* rational n/d, and d = 0 is one of the three non-finite float64 values   *)
(* numpy produces instead of raising: inf (num = 1), -inf (num = -1) and   *)
(* NaN (num = 0).  Rounding of float64 is not modelled.                    *)
(*                                                                         *)
(* Positions are 0-based as in pandas; a TLA+ sequence holds position i at *)
(* index i + 1.                                                            *)
(***************************************************************************)
EXTENDS Integers, Sequences, FiniteSets, TLC

VARIABLES pc, history, ma_window, data, buying_pressure_pct, selling_pressure_pct,
          stable_market_pct, most_common_behavior, args, ret

insights == <<buying_pressure_pct, selling_pressure_pct, stable_market_pct,
              most_common_behavior>>

vars == <<pc, history, ma_window, data, insights, args, ret>>

(* ---------------------------------------------------------------- bounds *)
MaxLen == 3
MaxWindow == 3

TimestampValues == {0, 1}
PriceValues == {1, 2}
VolumeValues == {0, 1}

(* ------------------------------------------------------ float64 / numpy *)
Abs(x) == IF x < 0 THEN -x ELSE x

Sign(x) == IF x > 0 THEN 1 ELSE IF x < 0 THEN -1 ELSE 0

RECURSIVE Gcd(_, _)
Gcd(a, b) == IF b = 0 THEN a ELSE Gcd(b, a % b)

\* n / d as numpy float64 division evaluates it: a zero divisor gives inf, -inf
\* or NaN (a RuntimeWarning, silenced at line 10), never an exception.
Frac(n, d) ==
    IF d = 0 THEN [num |-> Sign(n), den |-> 0]
    ELSE LET g == Gcd(Abs(n), Abs(d))
         IN  [num |-> (Sign(d) * n) \div g, den |-> Abs(d) \div g]

NaN == [num |-> 0, den |-> 0]
PosInf == [num |-> 1, den |-> 0]

IsNaN(x) == x.den = 0 /\ x.num = 0
IsFinite(x) == x.den > 0
FromInt(n) == [num |-> n, den |-> 1]

\* x - y for float64 operands (inf - inf and anything with NaN are NaN)
FSub(x, y) ==
    IF IsNaN(x) \/ IsNaN(y) THEN NaN
    ELSE IF ~IsFinite(x) /\ ~IsFinite(y) THEN (IF x.num = y.num THEN NaN ELSE x)
    ELSE IF ~IsFinite(x) THEN x
    ELSE IF ~IsFinite(y) THEN [num |-> -y.num, den |-> 0]
    ELSE Frac(x.num * y.den - y.num * x.den, x.den * y.den)

FNeg(x) == [num |-> -x.num, den |-> x.den]

FAdd(x, y) == FSub(x, FNeg(y))

\* x / y for float64 operands
FDiv(x, y) ==
    IF IsNaN(x) \/ IsNaN(y) THEN NaN
    ELSE IF ~IsFinite(x) /\ ~IsFinite(y) THEN NaN
    ELSE IF ~IsFinite(x) THEN [num |-> x.num * (IF y.num < 0 THEN -1 ELSE 1), den |-> 0]
    ELSE IF ~IsFinite(y) THEN FromInt(0)
    ELSE Frac(x.num * y.den, x.den * y.num)

\* x > y and x < y for float64 operands: every comparison with NaN is False
FGt(x, y) ==
    IF IsNaN(x) \/ IsNaN(y) THEN FALSE
    ELSE IF ~IsFinite(x) THEN x.num = 1 /\ y # PosInf
    ELSE IF ~IsFinite(y) THEN y.num = -1
    ELSE x.num * y.den > y.num * x.den

FLt(x, y) == FGt(y, x)

(* -------------------------------------------------------- classify_trend *)
\* the default of the threshold parameter, 0.001
DefaultThreshold == Frac(1, 1000)

\* both comparisons inclusive (>= and <=)
classify_trend_inclusive(current_value, ma_value, threshold) ==
    LET ratio == FDiv(FSub(current_value, ma_value), ma_value)
    IN  IF FGt(ratio, threshold) \/ (IsFinite(ratio) /\ ratio = threshold) THEN "Increase"
        ELSE IF FLt(ratio, FNeg(threshold)) \/ (IsFinite(ratio) /\ ratio = FNeg(threshold))
             THEN "Decrease"
        ELSE "Stable"

classify_trend(current_value, ma_value, threshold) ==
    LET ratio == FDiv(FSub(current_value, ma_value), ma_value)
    IN  IF FGt(ratio, threshold) THEN "Increase"
        ELSE IF FLt(ratio, FNeg(threshold)) THEN "Decrease"
        ELSE "Stable"

(* --------------------------------------------------- get_market_behavior *)
behavior_map ==
    (<<"Increase", "Increase">> :> "Buying Pressure") @@
    (<<"Increase", "Decrease">> :> "Mild Buying") @@
    (<<"Increase", "Stable">> :> "Cautious Buying") @@
    (<<"Decrease", "Increase">> :> "Selling Pressure") @@
    (<<"Decrease", "Decrease">> :> "Mild Selling") @@
    (<<"Decrease", "Stable">> :> "Cautious Selling") @@
    (<<"Stable", "Increase">> :> "Volume Spike") @@
    (<<"Stable", "Decrease">> :> "Low Activity") @@
    (<<"Stable", "Stable">> :> "Stable Market")

\* a table that lost one of its nine keys
get_market_behavior_missing_key(price_trend, volume_trend) ==
    IF <<price_trend, volume_trend>> \in DOMAIN behavior_map \ {<<"Stable", "Decrease">>}
    THEN behavior_map[<<price_trend, volume_trend>>]
    ELSE "Unknown"

\* behavior_map.get((price_trend, volume_trend), "Unknown")
get_market_behavior(price_trend, volume_trend) ==
    IF <<price_trend, volume_trend>> \in DOMAIN behavior_map
    THEN behavior_map[<<price_trend, volume_trend>>]
    ELSE "Unknown"

(* ------------------------------------------------------------ DataFrame *)
Range(f) == {f[x] : x \in DOMAIN f}

\* RangeIndex(n): the labels 0 .. n-1, which reset_index() and pd.DataFrame(list)
\* give a frame
RangeIndex(n) == [p \in 1..n |-> p - 1]

\* the value a Series (labels sidx, values svals) holds at label l; na if none
AtLabel(sidx, svals, l, na) ==
    IF \E q \in DOMAIN sidx : sidx[q] = l
    THEN svals[CHOOSE q \in DOMAIN sidx : sidx[q] = l]
    ELSE na

\* df[col] = Series(svals, index=sidx): pandas aligns the Series to the frame's
\* index by label; a label the Series lacks becomes na
SetColumn(df, col, sidx, svals, na) ==
    (col :> [p \in DOMAIN df.index |-> AtLabel(sidx, svals, df.index[p], na)]) @@ df

(* --------------------------------------------- calculate_moving_averages *)
\* a window that never drops its oldest position
WindowStartExpanding(i, window) == 0

\* FixedWindowIndexer: the half-open window [start, end) of position i
WindowStart(i, window) == IF i + 1 - window < 0 THEN 0 ELSE i + 1 - window

WindowEnd(i) == i + 1

\* the sum of values at positions s .. e-1
RECURSIVE SumRange(_, _, _)
SumRange(values, s, e) ==
    IF s >= e THEN 0 ELSE values[s + 1] + SumRange(values, s + 1, e)

\* one step of pandas' roll_mean at position i: acc = [sum_x, nobs] of the
\* previous window; the window is summed afresh at i = 0 or when it does not
\* overlap the previous one, otherwise the positions that left are removed and
\* the ones that entered are added
RollStep(values, window, i, acc) ==
    LET s == WindowStart(i, window)
        e == WindowEnd(i)
    IN  IF i = 0 \/ s >= WindowEnd(i - 1)
        THEN [sum_x |-> SumRange(values, s, e), nobs |-> e - s]
        ELSE [sum_x |-> acc.sum_x
                          - SumRange(values, WindowStart(i - 1, window), s)
                          + SumRange(values, WindowEnd(i - 1), e),
              nobs |-> acc.nobs - (s - WindowStart(i - 1, window))
                                + (e - WindowEnd(i - 1))]

\* min_periods = 1
calc_mean(minp, acc) ==
    IF acc.nobs >= minp /\ acc.nobs > 0 THEN Frac(acc.sum_x, acc.nobs) ELSE NaN

RECURSIVE roll_mean(_, _, _, _, _)
roll_mean(values, window, i, acc, out) ==
    IF i >= Len(values) THEN out
    ELSE LET next == RollStep(values, window, i, acc)
         IN  roll_mean(values, window, i + 1, next, Append(out, calc_mean(1, next)))

\* a mean that divides by the window size during warm-up too
rolling_mean_fixed_divisor(values, window) ==
    [p \in DOMAIN values |-> Frac(SumRange(values, WindowStart(p - 1, window), p), window)]

\* series.rolling(window=window, min_periods=1).mean()
rolling_mean(values, window) ==
    roll_mean(values, window, 0, [sum_x |-> 0, nobs |-> 0], <<>>)

\* rolling() raises ValueError for a window below min_periods = 1
WindowAccepted(window) == window >= 1

calculate_moving_averages ==
    /\ pc = "fetched"
    /\ IF WindowAccepted(ma_window)
       THEN /\ data' = SetColumn(
                         SetColumn(data, "Price_MA", data.index,
                                   rolling_mean(data.Price, ma_window), NaN),
                         "Volume_MA", data.index,
                         rolling_mean(data.Volume, ma_window), NaN)
            /\ pc' = "averaged"
       ELSE /\ pc' = "ValueError"
            /\ UNCHANGED data
    /\ UNCHANGED <<history, ma_window, insights, args, ret>>

(* -------------------------------------------------------- analyze_trends *)
\* the dict appended to trends for position i (data.iloc[i])
TrendRow(df, i) ==
    LET price_trend == classify_trend(FromInt(df.Price[i + 1]), df.Price_MA[i + 1],
                                      DefaultThreshold)
        volume_trend == classify_trend(FromInt(df.Volume[i + 1]), df.Volume_MA[i + 1],
                                       DefaultThreshold)
    IN  [Price_Trend |-> price_trend,
         Volume_Trend |-> volume_trend,
         Combination |-> "Price " \o price_trend \o " & Volume " \o volume_trend,
         Behavior |-> get_market_behavior(price_trend, volume_trend)]

\* for i in range(len(data)): trends.append(...)
Trends(df) == [p \in 1..Len(df.index) |-> TrendRow(df, p - 1)]

\* labels that start at 1
TrendsIndexFromOne(n) == [p \in 1..n |-> p]

\* trends_df = pd.DataFrame(trends): a RangeIndex of its own
TrendsIndex(n) == RangeIndex(n)

TrendColumn(trends, col) == [p \in DOMAIN trends |-> trends[p][col]]

analyze_trends ==
    /\ pc = "averaged"
    /\ LET trends == Trends(data)
           tidx == TrendsIndex(Len(trends))
           d1 == SetColumn(data, "Price_Trend", tidx, TrendColumn(trends, "Price_Trend"), "nan")
           d2 == SetColumn(d1, "Volume_Trend", tidx, TrendColumn(trends, "Volume_Trend"), "nan")
           d3 == SetColumn(d2, "Combination", tidx, TrendColumn(trends, "Combination"), "nan")
       IN  data' = SetColumn(d3, "Behavior", tidx, TrendColumn(trends, "Behavior"), "nan")
    /\ pc' = "analyzed"
    /\ UNCHANGED <<history, ma_window, insights, args, ret>>

(* ---------------------------------------------- calculate_factor_metrics *)
\* data['Price'] * data['Volume']
Product(price, volume) == [p \in DOMAIN price |-> price[p] * volume[p]]

\* Series.pct_change(): x[i] / x[i-1] - 1, NaN at position 0
pct_change(x) ==
    [p \in DOMAIN x |->
        IF p = 1 THEN NaN
        ELSE FSub(FDiv(FromInt(x[p]), FromInt(x[p - 1])), FromInt(1))]

\* the "+ 1" left out
PlusOneForgotten(x) == x

\* Series + 1
PlusOne(x) == [p \in DOMAIN x |-> FAdd(x[p], FromInt(1))]

\* Series.fillna(v): every NaN, wherever it stands, becomes v
fillna(x, v) == [p \in DOMAIN x |-> IF IsNaN(x[p]) THEN v ELSE x[p]]

calculate_factor_metrics ==
    /\ pc = "analyzed"
    /\ LET d1 == SetColumn(data, "Factor", data.index,
                           Product(data.Price, data.Volume), 0)
           d2 == SetColumn(d1, "Factor_Ratio", d1.index,
                           PlusOne(pct_change(d1.Factor)), NaN)
       IN  data' = SetColumn(d2, "Factor_Ratio", d2.index,
                             fillna(d2.Factor_Ratio, FromInt(1)), NaN)
    /\ pc' = "factored"
    /\ UNCHANGED <<history, ma_window, insights, args, ret>>

(* ----------------------------------------------------------------- main *)
\* Python's None
None == [index |-> <<>>, none |-> TRUE]

\* what ticker.history() hands back: one row per interval
Samples == [Timestamp : TimestampValues, Price : PriceValues, Volume : VolumeValues]

Histories == UNION {[1..n -> Samples] : n \in 0..MaxLen}

Column(rows, col) == [p \in DOMAIN rows |-> rows[p][col]]

\* fetch_intraday_data: None for an empty history, else the three columns
\* under a fresh RangeIndex (reset_index)
fetch_intraday_data(rows) ==
    IF Len(rows) = 0 THEN None
    ELSE [index |-> RangeIndex(Len(rows)),
          Timestamp |-> Column(rows, "Timestamp"),
          Price |-> Column(rows, "Price"),
          Volume |-> Column(rows, "Volume")]

\* main, lines 351-357 and 502-503: the button is pressed, the data is fetched;
\* None (an empty history, or any exception inside fetch_intraday_data) ends the
\* run with "Failed to fetch data"
Fetch ==
    /\ pc = "start"
    /\ \/ /\ data' = fetch_intraday_data(history)
          /\ pc' = IF Len(history) = 0 THEN "failed" ELSE "fetched"
       \/ /\ data' = None
          /\ pc' = "failed"
    /\ UNCHANGED <<history, ma_window, insights, args, ret>>

\* Series.value_counts(): label -> number of occurrences
value_counts(col) ==
    [l \in Range(col) |-> Cardinality({p \in DOMAIN col : col[p] = l})]

\* the order of Python's str comparison on the labels a Behavior column can hold
StrOrder ==
    <<"Buying Pressure", "Cautious Buying", "Cautious Selling", "Low Activity",
      "Mild Buying", "Mild Selling", "Selling Pressure", "Stable Market",
      "Unknown", "Volume Spike", "nan">>

\* the position of the first occurrence of label l in col
FirstAt(col, l) == CHOOSE p \in DOMAIN col : col[p] = l /\ \A q \in 1..(p - 1) : col[q] # l

\* the labels of the highest count in order of first occurrence, not sorted
mode_unsorted(col) ==
    LET counts == value_counts(col)
        modes == {l \in DOMAIN counts : \A k \in DOMAIN counts : counts[k] <= counts[l]}
        firsts == {FirstAt(col, l) : l \in modes}
    IN  [k \in 1..1 |-> col[CHOOSE p \in firsts : \A q \in firsts : p <= q]]

\* Series.mode(): the labels of the highest count, sorted
mode(col) ==
    LET counts == value_counts(col)
        modes == {l \in DOMAIN counts : \A k \in DOMAIN counts : counts[k] <= counts[l]}
    IN  SelectSeq(StrOrder, LAMBDA l : l \in modes)

\* (data['Behavior'] == label).mean() * 100
Percentage(col, label) ==
    Frac(100 * Cardinality({p \in DOMAIN col : col[p] = label}), Len(col))

\* main, lines 479-500: the three percentages and data['Behavior'].mode().iloc[0]
\* (the metrics, charts and table of lines 368-477 only read data)
KeyInsights ==
    /\ pc = "factored"
    /\ buying_pressure_pct' = Percentage(data.Behavior, "Buying Pressure")
    /\ selling_pressure_pct' = Percentage(data.Behavior, "Selling Pressure")
    /\ stable_market_pct' = Percentage(data.Behavior, "Stable Market")
    /\ most_common_behavior' = mode(data.Behavior)[1]
    /\ pc' = "done"
    /\ UNCHANGED <<history, ma_window, data, args, ret>>

NoArgs == [current_value |-> NaN, ma_value |-> NaN, threshold |-> NaN]

Init ==
    /\ pc = "start"
    /\ history \in Histories
    /\ ma_window \in 0..MaxWindow
    /\ data = None
    /\ buying_pressure_pct = NaN
    /\ selling_pressure_pct = NaN
    /\ stable_market_pct = NaN
    /\ most_common_behavior = "none"
    /\ args = NoArgs
    /\ ret = "none"

Next ==
    \/ Fetch
    \/ calculate_moving_averages
    \/ analyze_trends
    \/ calculate_factor_metrics
    \/ KeyInsights

Spec == Init /\ [][Next]_vars

(* ------------------------------------------- classify_trend on its own *)
\* the arguments are numpy scalars, as at the call sites (lines 125-126)
CallInts == {-2, -1, 0, 1, 2, 3, 999, 1000, 1001}

CallValues == {FromInt(v) : v \in CallInts}

CallAverages == {Frac(n, d) : n \in CallInts, d \in 1..2}

CallThresholds == {DefaultThreshold, Frac(1, 2), Frac(0, 1), Frac(-1, 2)}

InitClassify ==
    /\ pc = "call"
    /\ args \in [current_value : CallValues, ma_value : CallAverages,
                 threshold : CallThresholds]
    /\ ret = "none"
    /\ history = <<>>
    /\ ma_window = 0
    /\ data = None
    /\ buying_pressure_pct = NaN
    /\ selling_pressure_pct = NaN
    /\ stable_market_pct = NaN
    /\ most_common_behavior = "none"

ClassifyCall ==
    /\ pc = "call"
    /\ ret' = classify_trend(args.current_value, args.ma_value, args.threshold)
    /\ pc' = "returned"
    /\ UNCHANGED <<history, ma_window, data, insights, args>>

NextClassify == ClassifyCall

SpecClassify == InitClassify /\ [][NextClassify]_vars

(* ================================================================ claims *)
TrendLabels == {"Increase", "Decrease", "Stable"}

Analyzed == pc \in {"analyzed", "factored", "done"}

Averaged == pc = "averaged" \/ Analyzed

Factored == pc \in {"factored", "done"}

Prices == Column(history, "Price")

Volumes == Column(history, "Volume")

\* the sum of s[lo], ..., s[hi]
RECURSIVE SeqSum(_, _, _)
SeqSum(s, lo, hi) == IF lo > hi THEN 0 ELSE SeqSum(s, lo, hi - 1) + s[hi]

\* the first index of the window of index p (1-based)
Lo(p, w) == IF p - w + 1 < 1 THEN 1 ELSE p - w + 1

\* x is the finite number n / d (d > 0)
IsRatio(x, n, d) == x.den > 0 /\ x.num * d = n * x.den

\* C1: get_market_behavior returns the label of the table for each of the nine
\* pairs of trends, and no record analyze_trends produced carries a trend
\* outside the three labels or the behavior "Unknown".
C1_BehaviorTotal ==
    /\ get_market_behavior("Increase", "Increase") = "Buying Pressure"
    /\ get_market_behavior("Increase", "Decrease") = "Mild Buying"
    /\ get_market_behavior("Increase", "Stable") = "Cautious Buying"
    /\ get_market_behavior("Decrease", "Increase") = "Selling Pressure"
    /\ get_market_behavior("Decrease", "Decrease") = "Mild Selling"
    /\ get_market_behavior("Decrease", "Stable") = "Cautious Selling"
    /\ get_market_behavior("Stable", "Increase") = "Volume Spike"
    /\ get_market_behavior("Stable", "Decrease") = "Low Activity"
    /\ get_market_behavior("Stable", "Stable") = "Stable Market"
    /\ Analyzed =>
          \A p \in DOMAIN data.Behavior :
              /\ data.Price_Trend[p] \in TrendLabels
              /\ data.Volume_Trend[p] \in TrendLabels
              /\ data.Behavior[p] # "Unknown"

\* a run whose second record is Price Stable & Volume Decrease: "Low Activity"
C1_Witness ==
    /\ pc = "analyzed"
    /\ Len(history) >= 2
    /\ data.Price_Trend[2] = "Stable"
    /\ data.Volume_Trend[2] = "Decrease"
    /\ data.Behavior[2] = "Low Activity"

\* C2: for n >= 1 samples and a window w >= 1, Price_MA and Volume_MA have
\* length n and element p is the arithmetic mean of the input elements
\* max(first, p-w+1) .. p; with w = 1 the average is the input element itself.
C2_MovingAverage ==
    Averaged =>
        /\ Len(data.Price_MA) = Len(history)
        /\ Len(data.Volume_MA) = Len(history)
        /\ \A p \in 1..Len(history) :
              /\ IsRatio(data.Price_MA[p], SeqSum(Prices, Lo(p, ma_window), p),
                         p - Lo(p, ma_window) + 1)
              /\ IsRatio(data.Volume_MA[p], SeqSum(Volumes, Lo(p, ma_window), p),
                         p - Lo(p, ma_window) + 1)
              /\ ma_window = 1 =>
                    /\ data.Price_MA[p] = FromInt(Prices[p])
                    /\ data.Volume_MA[p] = FromInt(Volumes[p])

\* three samples and a window of 2: the third average has dropped the first
\* sample (prices 1, 2, 2 give 1, 3/2, 2)
C2_Witness ==
    /\ pc = "averaged"
    /\ ma_window = 2
    /\ Len(history) = 3
    /\ Prices = <<1, 2, 2>>
    /\ data.Price_MA[3] = FromInt(2)
    /\ data.Price_MA[2] = Frac(3, 2)

\* (v - m) / m compared with k * threshold in integers, for m # 0:
\* the ratio is n / (v.den * m.num) with n = v.num * m.den - m.num * v.den
RatioNum(a) == (a.current_value.num * a.ma_value.den
                  - a.ma_value.num * a.current_value.den)
               * Sign(a.ma_value.num) * a.threshold.den

RatioBound(a) == a.threshold.num * a.current_value.den * Abs(a.ma_value.num)

\* C3: for m # 0 (and a positive threshold) classify_trend returns Increase
\* exactly when (v - m)/m > threshold, Decrease exactly when
\* (v - m)/m < -threshold and Stable otherwise; a ratio equal to threshold or
\* to -threshold is Stable, and the three outcomes exclude each other.
C3_ClassifyTrend ==
    (pc = "returned" /\ args.ma_value.num # 0 /\ args.threshold.num > 0) =>
        /\ ret = "Increase" <=> RatioNum(args) > RatioBound(args)
        /\ ret = "Decrease" <=> RatioNum(args) < -RatioBound(args)
        /\ ret = "Stable" <=> /\ RatioNum(args) <= RatioBound(args)
                              /\ RatioNum(args) >= -RatioBound(args)
        /\ ret \in TrendLabels
        /\ RatioNum(args) = RatioBound(args) => ret = "Stable"
        /\ RatioNum(args) = -RatioBound(args) => ret = "Stable"

\* value 1001 against average 1000 at the default threshold: the ratio is
\* exactly 0.001 and the answer is Stable
C3_Witness ==
    /\ pc = "returned"
    /\ args.threshold = DefaultThreshold
    /\ args.ma_value = FromInt(1000)
    /\ args.current_value = FromInt(1001)
    /\ RatioNum(args) = RatioBound(args)
    /\ ret = "Stable"

\* C4: Factor[i] = Price[i] * Volume[i] at every index, Factor_Ratio is exactly
\* 1 at the first index, and Factor[i] / Factor[i-1] at every later index whose
\* preceding factor is not zero.
C4_FactorMetrics ==
    Factored =>
        /\ Len(data.Factor) = Len(history)
        /\ Len(data.Factor_Ratio) = Len(history)
        /\ \A p \in 1..Len(history) : data.Factor[p] = Prices[p] * Volumes[p]
        /\ data.Factor_Ratio[1] = FromInt(1)
        /\ \A p \in 2..Len(history) :
              Prices[p - 1] * Volumes[p - 1] # 0 =>
                  IsRatio(data.Factor_Ratio[p], Prices[p] * Volumes[p],
                          Prices[p - 1] * Volumes[p - 1])

\* factors 1 then 2: the second ratio is 2, the first is 1
C4_Witness ==
    /\ pc = "factored"
    /\ Len(history) >= 2
    /\ data.Factor[1] = 1
    /\ data.Factor[2] = 2
    /\ data.Factor_Ratio[1] = FromInt(1)
    /\ data.Factor_Ratio[2] = FromInt(2)

\* C5: when a moving average handed to the trend classifier is exactly zero,
\* classification fails with an error that ends the run: no run gets past
\* analyze_trends holding a trend label or a behavior for such a record.
C5_ZeroAverageRaises ==
    Analyzed =>
        \A p \in 1..Len(history) :
            /\ data.Price_MA[p].num # 0
            /\ data.Volume_MA[p].num # 0

\* C6: at an index i > 0 whose preceding factor is exactly zero the factor
\* engine raises an error for that record: no run gets past
\* calculate_factor_metrics holding a Factor_Ratio (1 from a filled NaN, or an
\* infinity) for such an index.
C6_ZeroFactorRaises ==
    Factored =>
        \A p \in 2..Len(history) : data.Factor[p - 1] # 0

\* the preconditions of the analysis on its samples and window
NonMonotonic(rows) ==
    \E p \in 2..Len(rows) : rows[p].Timestamp < rows[p - 1].Timestamp

InvalidInput ==
    \/ Len(history) = 0
    \/ ma_window <= 0
    \/ NonMonotonic(history)
    \/ \E p \in 1..Len(history) : history[p].Price < 0 \/ history[p].Volume < 0

\* C7: an input that violates a precondition (no samples, window <= 0,
\* timestamps that go back, a negative price or volume) fails before any
\* moving average, trend, behavior or factor is computed.
C7_InvalidInputFailsFast ==
    InvalidInput => pc \in {"start", "fetched", "failed", "ValueError"}

\* the mean of the window of index p, from the samples
WindowMean(col, p) ==
    Frac(SeqSum(col, Lo(p, ma_window), p), p - Lo(p, ma_window) + 1)

PriceTrendOf(p) == classify_trend(FromInt(Prices[p]), WindowMean(Prices, p), DefaultThreshold)

VolumeTrendOf(p) == classify_trend(FromInt(Volumes[p]), WindowMean(Volumes, p), DefaultThreshold)

FactorRatioOf(p) ==
    IF p = 1 THEN FromInt(1)
    ELSE LET r == FDiv(FromInt(Prices[p] * Volumes[p]),
                       FromInt(Prices[p - 1] * Volumes[p - 1]))
         IN  IF IsNaN(r) THEN FromInt(1) ELSE r

\* C8: after the three stages ran on n samples the frame has n records in the
\* input order; record i carries the Timestamp, Price and Volume of sample i
\* unchanged, and each derived field of record i is the one computed from
\* sample i (with its window and its predecessor), never from another row.
C8_RowsPreserved ==
    Factored =>
        /\ \A c \in DOMAIN data : Len(data[c]) = Len(history)
        /\ data.Timestamp = Column(history, "Timestamp")
        /\ data.Price = Prices
        /\ data.Volume = Volumes
        /\ \A p \in 1..Len(history) :
              /\ data.Price_Trend[p] = PriceTrendOf(p)
              /\ data.Volume_Trend[p] = VolumeTrendOf(p)
              /\ data.Combination[p] =
                    "Price " \o PriceTrendOf(p) \o " & Volume " \o VolumeTrendOf(p)
              /\ data.Behavior[p] = get_market_behavior(PriceTrendOf(p), VolumeTrendOf(p))
              /\ data.Factor[p] = Prices[p] * Volumes[p]
              /\ data.Factor_Ratio[p] = FactorRatioOf(p)

\* three samples whose records differ from each other in trend and factor
C8_Witness ==
    /\ pc = "factored"
    /\ Len(history) = 3
    /\ data.Price_Trend = <<"Stable", "Increase", "Decrease">>
    /\ data.Volume_Trend = <<"Stable", "Decrease", "Increase">>
    /\ data.Factor = <<1, 0, 1>>
    /\ data.Timestamp = <<0, 0, 1>>

Count(col, l) == Cardinality({p \in DOMAIN col : col[p] = l})

FirstIndex(col, l) == CHOOSE p \in DOMAIN col : col[p] = l /\ \A q \in 1..(p - 1) : col[q] # l

HighestCount(col, l) ==
    /\ l \in Range(col)
    /\ \A k \in Range(col) : Count(col, k) <= Count(col, l)

\* C9 as stated: the dominant behavior has the highest count, and among the
\* labels that share the highest count it is the one that occurs first in the
\* record sequence.
C9_ModeEarliestFirst ==
    pc = "done" =>
        /\ HighestCount(data.Behavior, most_common_behavior)
        /\ \A l \in Range(data.Behavior) :
              HighestCount(data.Behavior, l) =>
                  FirstIndex(data.Behavior, most_common_behavior)
                      <= FirstIndex(data.Behavior, l)

\* a comes before b in Python's str order (both behavior labels)
Before(a, b) ==
    \E i, j \in DOMAIN StrOrder : i <= j /\ StrOrder[i] = a /\ StrOrder[j] = b

\* C9 amended: the dominant behavior has the highest count, and among the
\* labels that share the highest count it is the first in string order.
C9_ModeSmallestLabel ==
    pc = "done" =>
        /\ HighestCount(data.Behavior, most_common_behavior)
        /\ \A l \in Range(data.Behavior) :
              HighestCount(data.Behavior, l) => Before(most_common_behavior, l)

\* "Stable Market" then "Buying Pressure", once each: the report is
\* "Buying Pressure", the label that occurs second
C9_Witness ==
    /\ pc = "done"
    /\ data.Behavior = <<"Stable Market", "Buying Pressure">>
    /\ most_common_behavior = "Buying Pressure"

\* C10: when the first price and the first volume are not zero, record 0 is
\* Price Stable & Volume Stable, "Stable Market", for every window w >= 1; and
\* with w = 1 every record is "Stable Market".
C10_FirstRecordStable ==
    (Analyzed /\ Prices[1] # 0 /\ Volumes[1] # 0) =>
        /\ data.Price_Trend[1] = "Stable"
        /\ data.Volume_Trend[1] = "Stable"
        /\ data.Combination[1] = "Price Stable & Volume Stable"
        /\ data.Behavior[1] = "Stable Market"
        /\ ma_window = 1 => \A p \in 1..Len(history) : data.Behavior[p] = "Stable Market"

\* a window of 3 over a rising price and a later record that is not stable
C10_Witness ==
    /\ pc = "analyzed"
    /\ ma_window = 3
    /\ Len(history) = 3
    /\ Prices = <<1, 2, 2>>
    /\ Volumes[1] = 1
    /\ data.Behavior[1] = "Stable Market"
    /\ data.Behavior[2] # "Stable Market"

\* a window of 1 over prices and volumes that change: all records stable
C10_WitnessWindowOne ==
    /\ pc = "analyzed"
    /\ ma_window = 1
    /\ Prices = <<1, 2, 1>>
    /\ Volumes = <<1, 0, 1>>
    /\ \A p \in 1..3 : data.Behavior[p] = "Stable Market"

====
